---- MODULE Spec2Model ----
(***************************************************************************)
(* Model of bwh_tools/api.py: get_serialized_safe_globals and its nested   *)
(* recursive helper get_formatted_globals_as_json_helper, which flattens a *)
(* nested dict of bindings into one dict from dotted names to descriptors. *)
(*                                                                         *)
(* Python strings that the code concatenates or slices (binding names,     *)
(* prefixes, keys, "parent") are sequences of one-character strings.       *)
(* Opaque texts (type names, docstrings, signatures, str() results) are    *)
(* TLA+ strings.  A Python dict is a sequence of <<key, value>> pairs in   *)
(* insertion order with distinct keys.  The recursion is an explicit stack *)
(* of frames, one frame per active call of the helper.                     *)
(***************************************************************************)
EXTENDS Integers, Sequences, FiniteSets, TLC

\* Total number of bindings (at all levels together) in an input namespace.
MaxBindings == 3

\* Frames the model lets the helper stack up; only an endless recursion
\* (a namespace that contains itself) ever reaches it.
StackCap == MaxBindings + 2

Dot == "."

\* Binding names of the inputs: two plain names and one with an embedded dot.
Names == { <<"a">>, <<"b">>, <<"a", ".", "a">> }

(***************************************************************************)
(* The Python objects that occur as leaf values, described by what the     *)
(* code asks of them: type(value).__name__, the classes isinstance sees,   *)
(* callable(value), __doc__, __module__, the outcome of                    *)
(* inspect.signature(value) and the outcome of str(value).                 *)
(***************************************************************************)
NoDoc == "None"
Raises(exc) == [ok |-> FALSE, text |-> exc]
Returns(text) == [ok |-> TRUE, text |-> text]

LeafObjs == {"vInt", "vEnum", "vList", "vBad", "fPy", "fNat", "fErr"}

Obj(id) ==
  CASE id = "vInt"  -> [type |-> "int", mro |-> {"int", "object"},
                        callable |-> FALSE, doc |-> "int doc", module |-> "builtins",
                        sig |-> Raises("TypeError"), str |-> Returns("100")]
    [] id = "vEnum" -> [type |-> "Color", mro |-> {"Color", "int", "object"},
                        callable |-> FALSE, doc |-> NoDoc, module |-> "app",
                        sig |-> Raises("TypeError"), str |-> Returns("Color.RED")]
    [] id = "vList" -> [type |-> "list", mro |-> {"list", "object"},
                        callable |-> FALSE, doc |-> "list doc", module |-> "builtins",
                        sig |-> Raises("TypeError"), str |-> Returns("[1, 2]")]
    [] id = "vBad"  -> [type |-> "Lazy", mro |-> {"Lazy", "object"},
                        callable |-> FALSE, doc |-> NoDoc, module |-> "app",
                        sig |-> Raises("TypeError"), str |-> Raises("RuntimeError")]
    [] id = "fPy"   -> [type |-> "function", mro |-> {"function", "object"},
                        callable |-> TRUE, doc |-> "Convert a string to dict", module |-> "json",
                        sig |-> Returns("(s)"), str |-> Returns("<function loads>")]
    [] id = "fNat"  -> [type |-> "builtin_function_or_method",
                        mro |-> {"builtin_function_or_method", "object"},
                        callable |-> TRUE, doc |-> "Return a new sorted list", module |-> "builtins",
                        sig |-> Raises("ValueError"), str |-> Returns("<built-in function sorted>")]
    [] id = "fErr"  -> [type |-> "Proxy", mro |-> {"Proxy", "object"},
                        callable |-> TRUE, doc |-> NoDoc, module |-> "app",
                        sig |-> Raises("TypeError"), str |-> Returns("<Proxy>")]

\* The classes of dict-like values: dict itself and a dict subclass with __call__.
DictClasses == {"dict", "CallableDict"}

(***************************************************************************)
(* Binding values.  kind "leaf": the object named by obj.  kind "ns": a    *)
(* mapping of class obj with the bindings items, a sequence of             *)
(* <<name, value>> pairs.  kind "up": the very dict object that is k       *)
(* levels above the mapping holding the binding (k = 0: that mapping       *)
(* itself), which is how a namespace comes to contain itself.              *)
(***************************************************************************)
Leaf(id) == [kind |-> "leaf", obj |-> id, items |-> <<>>, k |-> 0]
Ns(cls, items) == [kind |-> "ns", obj |-> cls, items |-> items, k |-> 0]
Up(k) == [kind |-> "up", obj |-> "dict", items |-> <<>>, k |-> k]

RECURSIVE Size(_)
Size(v) ==
  IF v.kind = "ns"
  THEN LET RECURSIVE Sum(_)
           Sum(i) == IF i = 0 THEN 0 ELSE 1 + Size(v.items[i][2]) + Sum(i - 1)
       IN Sum(Len(v.items))
  ELSE 0

\* The mapping d levels down the chain of last bindings of v.
RECURSIVE OpenNode(_, _)
OpenNode(v, d) == IF d = 0 THEN v ELSE OpenNode(v.items[Len(v.items)][2], d - 1)

\* v with binding b appended to the mapping d levels down that chain.
RECURSIVE AppendAt(_, _, _)
AppendAt(v, d, b) ==
  IF d = 0 THEN [v EXCEPT !.items = Append(@, b)]
  ELSE [v EXCEPT !.items[Len(v.items)][2] = AppendAt(@, d - 1, b)]

NamesOf(items) == { items[i][1] : i \in 1..Len(items) }

(***************************************************************************)
(* What the code asks of a value.  A mapping is an instance of dict; one   *)
(* of class CallableDict is callable as well.                              *)
(***************************************************************************)
Facts(v) ==
  IF v.kind = "leaf" THEN Obj(v.obj)
  ELSE [type |-> v.obj, mro |-> {v.obj, "dict", "object"},
        callable |-> (v.obj = "CallableDict"), doc |-> "dict doc", module |-> "builtins",
        sig |-> Raises("ValueError"), str |-> Returns("{...}")]

IsInstance(v, classes) == Facts(v).mro \cap classes # {}
IsCallable(v) == Facts(v).callable
TypeName(v) == Facts(v).type

(***************************************************************************)
(* Python dict operations on <<key, value>> sequences.                     *)
(***************************************************************************)
Keys(d) == { d[i][1] : i \in 1..Len(d) }
KeyIndex(d, key) == CHOOSE i \in 1..Len(d) : d[i][1] = key
Get(d, key) == d[KeyIndex(d, key)][2]

\* Variant: the first value stored under a key stays (setdefault).
DictSetKeepFirst(d, key, val) ==
  IF key \in Keys(d) THEN d ELSE Append(d, <<key, val>>)

\* d[key] = val
DictSet(d, key, val) ==
  IF key \in Keys(d) THEN [d EXCEPT ![KeyIndex(d, key)] = <<key, val>>]
  ELSE Append(d, <<key, val>>)

\* d.update(other)
RECURSIVE DictUpdate(_, _)
DictUpdate(d, other) ==
  IF other = <<>> THEN d
  ELSE DictUpdate(DictSet(d, other[1][1], other[1][2]), Tail(other))

(***************************************************************************)
(* The three branches of the loop body and the descriptors they build.     *)
(***************************************************************************)
\* Variant: the callable test comes before the dict test.
BranchCallableFirst(v) ==
  IF IsCallable(v) THEN "callable"
  ELSE IF IsInstance(v, {"dict"}) THEN "namespace"
  ELSE "value"

\* Variant: no dict test; a mapping is described like any other value.
BranchWithoutNamespaces(v) ==
  IF IsCallable(v) THEN "callable" ELSE "value"

Branch(v) ==
  IF IsInstance(v, {"dict"}) THEN "namespace"
  ELSE IF IsCallable(v) THEN "callable"
  ELSE "value"

\* The dict literal of the callable branch.
FunctionDescriptor(v) ==
  [type |-> TypeName(v), docs |-> Facts(v).doc, is_callable |-> TRUE,
   is_builtin |-> (Facts(v).module = "builtins")]

\* Variant: the separator is left out.
ChildPrefixNoDot(prefix, key) == prefix \o key

\* prefix + key + "."
ChildPrefix(prefix, key) == prefix \o key \o <<Dot>>

\* Variant: the prefix with its trailing dot.
ParentOfUnstripped(prefix) == prefix

\* prefix[:-1]
ParentOf(prefix) == IF prefix = <<>> THEN <<>> ELSE SubSeq(prefix, 1, Len(prefix) - 1)

\* The two assignments inside the try block.
WithSignature(desc, text, prefix) ==
  desc @@ [signature |-> text, parent |-> ParentOf(prefix)]

\* Variant: except Exception.
IsSwallowedAny(exc) == TRUE

\* Which exceptions of inspect.signature the except clause swallows.
IsSwallowed(exc) == exc = "ValueError"

\* Variant: type(value) in (int, str, float, bool).
IsPassedThroughExact(v) == TypeName(v) \in {"int", "str", "float", "bool"}

\* isinstance(value, (int, str, float, bool))
IsPassedThrough(v) == IsInstance(v, {"int", "str", "float", "bool"})

\* Variant: the value branch copies the docs field of the callable branch.
ValueDescriptorWithDocs(v, processed) ==
  [type |-> TypeName(v), value |-> processed, is_callable |-> FALSE, docs |-> Facts(v).doc]

\* The dict literal of the value branch; processed is <<"obj", id>> for the
\* value object itself and <<"str", text>> for its str() text.
ValueDescriptor(v, processed) ==
  [type |-> TypeName(v), value |-> processed, is_callable |-> FALSE]

\* Variant: the walk consumes the mapping it iterates.
AfterWalkCleared(tree) == [tree EXCEPT !.items = <<>>]

\* The input after a completed walk of it: the loop only reads it.
AfterWalk(tree) == tree

(***************************************************************************)
(* State.                                                                  *)
(***************************************************************************)
VARIABLES
  safe_globals,  \* the namespace returned by get_safe_globals()
  open,          \* while the provider builds it: depth of the mapping being filled
  pc,            \* "build", "running", "done", "raised"
  stack,         \* frames of the helper, outermost first
  ret,           \* <<>> or <<d>>: the dict the endpoint returned
  err,           \* the exception that left the endpoint, "" if none
  calls,         \* calls of the endpoint made so far
  prev,          \* outcome of the previous call
  maxDepth       \* most frames that were on the stack during this call

vars == <<safe_globals, open, pc, stack, ret, err, calls, prev, maxDepth>>

Frame(node, prefix) == [node |-> node, prefix |-> prefix, idx |-> 1, acc |-> <<>>]

NoOutcome == [pc |-> "none", ret |-> <<>>, err |-> ""]

Init ==
  /\ safe_globals = Ns("dict", <<>>)
  /\ open = 0
  /\ pc = "build"
  /\ stack = <<>>
  /\ ret = <<>>
  /\ err = ""
  /\ calls = 0
  /\ prev = NoOutcome
  /\ maxDepth = 0

(***************************************************************************)
(* The provider of the namespace: it fills mappings binding by binding.    *)
(***************************************************************************)
CanBind(name) ==
  /\ pc = "build"
  /\ Size(safe_globals) < MaxBindings
  /\ name \notin NamesOf(OpenNode(safe_globals, open).items)
  \* the two plain names are interchangeable: "b" is bound only after "a"
  /\ name = <<"b">> => <<"a">> \in NamesOf(OpenNode(safe_globals, open).items)

BindLeafIn(ids) ==
  \E name \in Names, id \in ids :
    /\ CanBind(name)
    /\ safe_globals' = AppendAt(safe_globals, open, <<name, Leaf(id)>>)
    /\ UNCHANGED <<open, pc, stack, ret, err, calls, prev, maxDepth>>

BindLeaf == BindLeafIn(LeafObjs)

\* A provider with fewer kinds of leaves: a plain value and a callable
\* whose inspection fails with TypeError.
PlainObjs == {"vInt", "fErr"}
BindPlainLeaf == BindLeafIn(PlainObjs)

BindSelf ==
  \E name \in Names, k \in 0..open :
    /\ CanBind(name)
    /\ safe_globals' = AppendAt(safe_globals, open, <<name, Up(k)>>)
    /\ UNCHANGED <<open, pc, stack, ret, err, calls, prev, maxDepth>>

BindNamespace ==
  \E name \in Names, cls \in DictClasses :
    /\ CanBind(name)
    /\ safe_globals' = AppendAt(safe_globals, open, <<name, Ns(cls, <<>>)>>)
    /\ open' = open + 1
    /\ UNCHANGED <<pc, stack, ret, err, calls, prev, maxDepth>>

CloseNamespace ==
  /\ pc = "build"
  /\ open > 0
  /\ open' = open - 1
  /\ UNCHANGED <<safe_globals, pc, stack, ret, err, calls, prev, maxDepth>>

(***************************************************************************)
(* get_serialized_safe_globals                                             *)
(***************************************************************************)
Enter ==
  /\ calls' = calls + 1
  /\ open' = 0
  /\ pc' = "running"
  /\ stack' = << Frame(safe_globals, <<>>) >>
  /\ ret' = <<>>
  /\ err' = ""
  /\ maxDepth' = 1
  /\ UNCHANGED safe_globals

\* The first request, on the namespace as the provider has built it so far.
Call ==
  /\ pc = "build"
  /\ calls = 0
  /\ Enter
  /\ UNCHANGED prev

\* A second request after the first has ended.
CallAgain ==
  /\ pc \in {"done", "raised"}
  /\ calls = 1
  /\ Enter
  /\ prev' = [pc |-> pc, ret |-> ret, err |-> err]

Top == stack[Len(stack)]
AtBinding == pc = "running" /\ Top.idx <= Len(Top.node.items)
Key == Top.node.items[Top.idx][1]
\* The value of the binding; a self reference is the dict of an outer frame.
Value ==
  LET v == Top.node.items[Top.idx][2]
  IN IF v.kind = "up" THEN stack[Len(stack) - v.k].node ELSE v

Advance(acc) == stack' = [stack EXCEPT ![Len(stack)] = [@ EXCEPT !.idx = @ + 1, !.acc = acc]]

Raise(exc) ==
  /\ pc' = "raised"
  /\ err' = exc
  /\ stack' = <<>>
  /\ ret' = <<>>

Recurse ==
  /\ AtBinding
  /\ Branch(Value) = "namespace"
  /\ Len(stack) < StackCap
  /\ stack' = Append(stack, Frame(Value, ChildPrefix(Top.prefix, Key)))
  /\ maxDepth' = IF Len(stack) + 1 > maxDepth THEN Len(stack) + 1 ELSE maxDepth
  /\ UNCHANGED <<safe_globals, open, pc, ret, err, calls, prev>>

DescribeCallable ==
  /\ AtBinding
  /\ Branch(Value) = "callable"
  /\ LET desc == FunctionDescriptor(Value)
         sig == Facts(Value).sig
     IN IF sig.ok
        THEN /\ Advance(DictSet(Top.acc, Top.prefix \o Key,
                                WithSignature(desc, sig.text, Top.prefix)))
             /\ UNCHANGED <<pc, ret, err>>
        ELSE IF IsSwallowed(sig.text)
        THEN /\ Advance(DictSet(Top.acc, Top.prefix \o Key, desc))
             /\ UNCHANGED <<pc, ret, err>>
        ELSE Raise(sig.text)
  /\ UNCHANGED <<safe_globals, open, calls, prev, maxDepth>>

DescribeValue ==
  /\ AtBinding
  /\ Branch(Value) = "value"
  /\ IF IsPassedThrough(Value)
     THEN /\ Advance(DictSet(Top.acc, Top.prefix \o Key,
                             ValueDescriptor(Value, <<"obj", Value.obj>>)))
          /\ UNCHANGED <<pc, ret, err>>
     ELSE LET text == Facts(Value).str
          IN IF text.ok
             THEN /\ Advance(DictSet(Top.acc, Top.prefix \o Key,
                                     ValueDescriptor(Value, <<"str", text.text>>)))
                  /\ UNCHANGED <<pc, ret, err>>
             ELSE Raise(text.text)
  /\ UNCHANGED <<safe_globals, open, calls, prev, maxDepth>>

Return ==
  /\ pc = "running"
  /\ Top.idx > Len(Top.node.items)
  /\ IF Len(stack) > 1
     THEN /\ stack' = [SubSeq(stack, 1, Len(stack) - 1) EXCEPT ![Len(stack) - 1] =
                         [@ EXCEPT !.idx = @ + 1, !.acc = DictUpdate(@, Top.acc)]]
          /\ UNCHANGED <<safe_globals, pc, ret>>
     ELSE /\ stack' = <<>>
          /\ pc' = "done"
          /\ ret' = << Top.acc >>
          /\ safe_globals' = AfterWalk(safe_globals)
  /\ UNCHANGED <<open, err, calls, prev, maxDepth>>

Next ==
  \/ BindLeaf
  \/ BindSelf
  \/ BindNamespace
  \/ CloseNamespace
  \/ Call
  \/ Recurse
  \/ DescribeCallable
  \/ DescribeValue
  \/ Return

Spec == Init /\ [][Next]_vars

\* The steps of one call of the helper; a started call keeps running.
Walk == Recurse \/ DescribeCallable \/ DescribeValue \/ Return

NextPlain ==
  \/ BindPlainLeaf
  \/ BindSelf
  \/ BindNamespace
  \/ CloseNamespace
  \/ Call
  \/ Recurse
  \/ DescribeCallable
  \/ DescribeValue
  \/ Return

FairSpec == Init /\ [][NextPlain]_vars /\ WF_vars(Walk)

NextAgain == Next \/ CallAgain
SpecAgain == Init /\ [][NextAgain]_vars

(***************************************************************************)
(* Reading an input namespace, independently of the walk.                  *)
(***************************************************************************)
\* Some mapping below v contains itself or a mapping above it.
RECURSIVE Cyclic(_)
Cyclic(v) ==
  \E i \in 1..Len(v.items) :
    \/ v.items[i][2].kind = "up"
    \/ v.items[i][2].kind = "ns" /\ Cyclic(v.items[i][2])

\* Every binding name below v is non-empty and has no dot in it.
RECURSIVE CleanNames(_)
CleanNames(v) ==
  \A i \in 1..Len(v.items) :
    /\ v.items[i][1] # <<>>
    /\ \A j \in 1..Len(v.items[i][1]) : v.items[i][1][j] # Dot
    /\ v.items[i][2].kind = "ns" => CleanNames(v.items[i][2])

\* The leaf bindings below v in iteration order, each with the chain of
\* names leading to it; path is the chain leading to v.
RECURSIVE LeavesOf(_, _)
LeavesOf(v, path) ==
  LET RECURSIVE From(_)
      From(i) ==
        IF i > Len(v.items) THEN <<>>
        ELSE LET name == v.items[i][1]
                 val == v.items[i][2]
                 here == IF val.kind = "ns" THEN LeavesOf(val, Append(path, name))
                         ELSE IF val.kind = "leaf"
                         THEN << [path |-> Append(path, name), val |-> val] >>
                         ELSE <<>>
             IN here \o From(i + 1)
  IN From(1)

\* The chains of names leading to the mappings strictly below v.
RECURSIVE NamespacePathsOf(_, _)
NamespacePathsOf(v, path) ==
  UNION { IF v.items[i][2].kind = "ns"
          THEN { Append(path, v.items[i][1]) }
               \cup NamespacePathsOf(v.items[i][2], Append(path, v.items[i][1]))
          ELSE {} : i \in 1..Len(v.items) }

\* Levels of mappings in v: 1 for a mapping without mappings in it.
RECURSIVE DepthOf(_)
DepthOf(v) ==
  LET RECURSIVE Deepest(_)
      Deepest(i) ==
        IF i = 0 THEN 0
        ELSE LET sub == IF v.items[i][2].kind = "ns" THEN DepthOf(v.items[i][2]) ELSE 0
                 rest == Deepest(i - 1)
             IN IF sub > rest THEN sub ELSE rest
  IN 1 + Deepest(Len(v.items))

\* The names of a chain joined with dots.
RECURSIVE Join(_)
Join(path) ==
  IF path = <<>> THEN <<>>
  ELSE IF Len(path) = 1 THEN path[1]
  ELSE path[1] \o <<Dot>> \o Join(Tail(path))

Front(path) == SubSeq(path, 1, Len(path) - 1)

Leaves == LeavesOf(safe_globals, <<>>)
Returned == pc = "done"
Result == ret[1]
Primitives == {"int", "str", "float", "bool"}
CallableFields == {"type", "docs", "is_callable", "is_builtin"}
ValueFields == {"type", "value", "is_callable"}

\* A leaf whose classification raises something the code does not catch.
Fatal(val) ==
  IF Facts(val).callable
  THEN ~Facts(val).sig.ok /\ Facts(val).sig.text # "ValueError"
  ELSE Facts(val).mro \cap Primitives = {} /\ ~Facts(val).str.ok

\* The descriptor the loop body builds for a leaf under a chain of names.
DescriptorFor(val, path) ==
  IF Facts(val).callable
  THEN IF Facts(val).sig.ok
       THEN [type |-> Facts(val).type, docs |-> Facts(val).doc, is_callable |-> TRUE,
             is_builtin |-> (Facts(val).module = "builtins"),
             signature |-> Facts(val).sig.text, parent |-> Join(Front(path))]
       ELSE [type |-> Facts(val).type, docs |-> Facts(val).doc, is_callable |-> TRUE,
             is_builtin |-> (Facts(val).module = "builtins")]
  ELSE [type |-> Facts(val).type, is_callable |-> FALSE,
        value |-> IF Facts(val).mro \cap Primitives # {}
                  THEN <<"obj", val.obj>> ELSE <<"str", Facts(val).str.text>>]

LastLeafAt(key) ==
  LET hits == { i \in 1..Len(Leaves) : Join(Leaves[i].path) = key }
  IN Leaves[CHOOSE i \in hits : \A j \in hits : j <= i]

NonCallableLeaves == { i \in 1..Len(Leaves) : ~Facts(Leaves[i].val).callable }
CallableLeaves == { i \in 1..Len(Leaves) : Facts(Leaves[i].val).callable }
EntryOf(i) == Get(Result, Join(Leaves[i].path))

(***************************************************************************)
(* C2 as stated.  In a returned result every non-callable leaf has the     *)
(* value itself in the value field exactly when its runtime type is        *)
(* exactly int, str, float or bool (a subtype does not qualify), and the   *)
(* str() text otherwise.                                                   *)
(***************************************************************************)
C2_ExactTypePassThrough ==
  (Returned /\ CleanNames(safe_globals)) =>
    \A i \in NonCallableLeaves :
      IF Facts(Leaves[i].val).type \in Primitives
      THEN EntryOf(i).value = <<"obj", Leaves[i].val.obj>>
      ELSE EntryOf(i).value = <<"str", Facts(Leaves[i].val).str.text>>

(***************************************************************************)
(* C2 amended.  In a returned result every non-callable leaf has the value *)
(* itself in the value field exactly when it is an instance of int, str,   *)
(* float or bool, instances of their subtypes included, and the str() text *)
(* otherwise.                                                              *)
(***************************************************************************)
C2_InstancePassThrough ==
  (Returned /\ CleanNames(safe_globals)) =>
    \A i \in NonCallableLeaves :
      IF Facts(Leaves[i].val).mro \cap Primitives # {}
      THEN EntryOf(i).value = <<"obj", Leaves[i].val.obj>>
      ELSE EntryOf(i).value = <<"str", Facts(Leaves[i].val).str.text>>

C2_Witness ==
  /\ Returned /\ CleanNames(safe_globals)
  /\ { Leaves[i].val.obj : i \in 1..Len(Leaves) } = {"vEnum", "vList"}

(***************************************************************************)
(* C3.  A plain value whose str() fails never makes the call raise.        *)
(***************************************************************************)
C3_StrFailureNeverRaises ==
  pc = "raised" => err # "RuntimeError"

(***************************************************************************)
(* C4.  In a returned result every callable descriptor has signature and   *)
(* parent both or neither; for dot-free names it has both exactly when     *)
(* inspect.signature succeeds, signature then being its non-empty text and *)
(* parent the leaf's dotted path without its last segment ("" at the       *)
(* root), and the other four fields are there either way.                  *)
(***************************************************************************)
C4_SignatureWithParent ==
  Returned =>
    /\ \A i \in 1..Len(Result) :
         ("signature" \in DOMAIN Result[i][2]) <=> ("parent" \in DOMAIN Result[i][2])
    /\ CleanNames(safe_globals) =>
         \A i \in CallableLeaves :
           /\ CallableFields \subseteq DOMAIN EntryOf(i)
           /\ ("signature" \in DOMAIN EntryOf(i)) <=> Facts(Leaves[i].val).sig.ok
           /\ Facts(Leaves[i].val).sig.ok =>
                /\ EntryOf(i).signature = Facts(Leaves[i].val).sig.text
                /\ EntryOf(i).signature # ""
                /\ EntryOf(i).parent = Join(Front(Leaves[i].path))

C4_Witness ==
  /\ Returned /\ CleanNames(safe_globals)
  /\ \E i, j \in CallableLeaves :
       /\ Leaves[i].val.obj = "fPy" /\ Len(Leaves[i].path) = 2
       /\ Leaves[j].val.obj = "fNat"

(***************************************************************************)
(* C5.  A call that raises returns nothing, and it raises because some     *)
(* leaf fails in a way other than ValueError from inspect.signature; a     *)
(* call that returns has met no such leaf at any depth and holds an entry  *)
(* for every leaf.                                                         *)
(***************************************************************************)
C5_AllOrNothing ==
  /\ pc = "raised" => ret = <<>> /\ \E i \in 1..Len(Leaves) : Fatal(Leaves[i].val)
  /\ Returned =>
       \A i \in 1..Len(Leaves) :
         ~Fatal(Leaves[i].val) /\ Join(Leaves[i].path) \in Keys(Result)

C5_Witness ==
  /\ pc = "raised" /\ err = "TypeError"
  /\ \E i, j \in 1..Len(Leaves) :
       /\ j < i /\ ~Fatal(Leaves[j].val)
       /\ Leaves[i].val.obj = "fErr" /\ Len(Leaves[i].path) >= 2

C8_LastWriteWins ==
  Returned =>
    /\ Cardinality(Keys(Result)) = Len(Result)
    /\ Keys(Result) = { Join(Leaves[i].path) : i \in 1..Len(Leaves) }
    /\ \A i \in 1..Len(Result) :
         Result[i][2] = DescriptorFor(LastLeafAt(Result[i][1]).val,
                                      LastLeafAt(Result[i][1]).path)

\* Two leaves share a path, their descriptors differ, and the later one is
\* merged in from a sub-namespace.
C8_Witness ==
  /\ Returned
  /\ \E i, j \in 1..Len(Leaves) :
       /\ i < j
       /\ Join(Leaves[i].path) = Join(Leaves[j].path)
       /\ Len(Leaves[j].path) = 2
       /\ DOMAIN DescriptorFor(Leaves[i].val, Leaves[i].path)
            # DOMAIN DescriptorFor(Leaves[j].val, Leaves[j].path)

====
